---- MODULE Spec2Model ----
(***************************************************************************)
(* The Dashboard component of mlapp/client: the loadData life cycle        *)
(* (three requests joined by Promise.all, normalisation of logs and        *)
(* forecast points, merge by date) and what the component renders from     *)
(* its state (next forecast, confidence, formatted date, chart card).      *)
(***************************************************************************)
EXTENDS Integers, Sequences, FiniteSets, TLC

\* Days 1..MaxDay are the calendar dates that parse.
MaxDay == 2
\* A backend holds at most MaxPoints log entries and forecast points in all.
MaxPoints == 3

(***************************************************************************)
(* JavaScript values.  A primitive is a record [k, n]: k is its kind and   *)
(* n its integer payload.                                                  *)
(***************************************************************************)
Undef == [k |-> "undefined", n |-> 0]
Null == [k |-> "null", n |-> 0]
NaN == [k |-> "NaN", n |-> 0]
Infinity == [k |-> "Infinity", n |-> 0]
Num(n) == [k |-> "number", n |-> n]
\* the string "n", e.g. "2"
NumStr(n) == [k |-> "numstr", n |-> n]
\* a string that is neither a number nor a date, e.g. "abc"
TextStr == [k |-> "text", n |-> 0]
\* the string "Infinity"
InfStr == [k |-> "infstr", n |-> 0]
\* an ISO calendar date string of day d, e.g. "2024-03-0d"
IsoDate(d) == [k |-> "isodate", n |-> d]
\* a plain object that is not an array, e.g. {}
Obj == [k |-> "object", n |-> 0]
\* an array with the items of the sequence s
Arr(s) == [k |-> "array", v |-> s]

IsNullish(x) == x = Undef \/ x = Null
IsArray(x) == DOMAIN x = {"k", "v"}
IsPrimitive(x) == DOMAIN x = {"k", "n"}

\* Number(x): ToNumber of a primitive
Number(x) ==
  CASE x.k = "number" -> x
    [] x.k = "numstr" -> Num(x.n)
    [] x.k = "null" -> Num(0)
    [] x.k = "Infinity" -> Infinity
    [] x.k = "infstr" -> Infinity
    [] OTHER -> NaN

\* ToBoolean of a primitive
Truthy(x) ==
  IF ~IsPrimitive(x) THEN TRUE
  ELSE CASE x.k \in {"undefined", "null", "NaN"} -> FALSE
         [] x.k = "number" -> x.n # 0
         [] OTHER -> TRUE

\* a || b
Or(a, b) == IF Truthy(a) THEN a ELSE b

\* a ?? b
Coalesce(a, b) == IF IsNullish(a) THEN b ELSE a

IsFinite(x) == x.k = "number"

(***************************************************************************)
(* Dates.  new Date(x) has a time value, NaN when x does not parse.        *)
(***************************************************************************)
DateValue(x) ==
  CASE x.k = "isodate" -> Num(x.n)
    [] x.k = "null" -> Num(0)
    [] OTHER -> NaN

Parses(x) == DateValue(x) # NaN

\* (a, b) => new Date(a.date) - new Date(b.date), as Array.prototype.sort
\* reads it: a NaN result counts as +0
CompareFn(a, b) ==
  IF Parses(a.date) /\ Parses(b.date)
  THEN DateValue(a.date).n - DateValue(b.date).n
  ELSE 0

Range(s) == {s[i] : i \in 1..Len(s)}

\* the comparator orders the items consistently (ECMAScript 23.1.3.30.2)
Consistent(s) ==
  \A a \in Range(s), b \in Range(s), c \in Range(s) :
    /\ (CompareFn(a, b) = 0 /\ CompareFn(b, c) = 0) => CompareFn(a, c) = 0
    /\ (CompareFn(a, b) < 0 /\ CompareFn(b, c) = 0) => CompareFn(a, c) < 0
    /\ (CompareFn(a, b) = 0 /\ CompareFn(b, c) < 0) => CompareFn(a, c) < 0

\* the place of item i in the stable ascending order: behind every item that
\* compares smaller, and behind the equal items that precede it in s
Rank(s, i) ==
  1 + Cardinality({j \in 1..Len(s) :
                     \/ CompareFn(s[j], s[i]) < 0
                     \/ (CompareFn(s[j], s[i]) = 0 /\ j < i)})

StableSort(s) == [r \in 1..Len(s) |-> s[CHOOSE i \in 1..Len(s) : Rank(s, i) = r]]

\* the orders of n items
Orders ==
  [n \in 0..MaxPoints |->
     {p \in [1..n -> 1..n] : \A i \in 1..n : \E j \in 1..n : p[j] = i}]

Reorderings(s) == {[i \in 1..Len(s) |-> s[p[i]]] : p \in Orders[Len(s)]}

\* a sort that leaves the items in their input order
ArraySortKeepsOrder(s) == {s}

\* [...s].sort(CompareFn): the stable sort when the comparator is consistent,
\* otherwise an implementation-defined order of the same items
\* (t is the array s, evaluated once)
ArraySort(s) ==
  UNION {IF Consistent(t) THEN {StableSort(t)} ELSE Reorderings(t) : t \in {s}}

(***************************************************************************)
(* Normalisation (loadData, lines 41-56).                                  *)
(***************************************************************************)
\* a record the .map callback cannot read a property of (null / undefined)
Unreadable(x) == IsNullish(x)

\* f.range?.min and f.range?.max
RangeMin(f) == IF IsNullish(f.range) THEN Undef ELSE f.range.min
RangeMax(f) == IF IsNullish(f.range) THEN Undef ELSE f.range.max

HistoryPoint(log) ==
  [date |-> log.date,
   hours |-> Or(Number(log.duration), Num(0)),
   min |-> Or(Number(log.duration), Num(0)),
   max |-> Or(Number(log.duration), Num(0)),
   type |-> "history"]

ForecastPoint(f) ==
  [date |-> f.date,
   hours |-> Or(Number(f.hours), Num(0)),
   min |-> Or(Or(Number(RangeMin(f)), Number(f.hours)), Num(0)),
   max |-> Or(Or(Number(RangeMax(f)), Number(f.hours)), Num(0)),
   type |-> "forecast"]

\* the array loadData maps: logsRes?.data ?? []
LogsArray(data) == Coalesce(data, Arr(<< >>))

\* forecastRes?.data?.forecast ?? []
ForecastArray(data) ==
  IF IsNullish(data) THEN Arr(<< >>) ELSE Coalesce(data.forecast, Arr(<< >>))

\* x.map(callback) throws a TypeError: x is no array, or an item is unreadable
MapThrows(x) == ~IsArray(x) \/ \E i \in 1..Len(x.v) : Unreadable(x.v[i])

historyData(data) ==
  LET a == LogsArray(data).v
  IN  ArraySort([i \in 1..Len(a) |-> HistoryPoint(a[i])])

forecastPoints(data) ==
  LET a == ForecastArray(data).v
  IN  [i \in 1..Len(a) |-> ForecastPoint(a[i])]

\* the outcomes of [...historyData, ...forecastPoints].sort(...)
chartData(logsData, forecastData) ==
  UNION {ArraySort(h \o forecastPoints(forecastData)) : h \in historyData(logsData)}

DefaultStats == [totalHours |-> 0, avgPerDay |-> 0, entries |-> 0]

(***************************************************************************)
(* What the component renders from its state (lines 72-96, 139-158).       *)
(***************************************************************************)
\* 'Mar d', the en-US short form of day d
ShortDate(d) == [k |-> "Mon D", n |-> d]
\* the text "Invalid Date"
InvalidDateText == [k |-> "Invalid Date", n |-> 0]

\* new Date(x) does not throw for a primitive and toLocaleDateString of an
\* invalid date returns "Invalid Date", so the catch branch is never taken
formatDate(dateStr) ==
  IF Parses(dateStr) THEN ShortDate(DateValue(dateStr).n) ELSE InvalidDateText

\* 'p%', the placeholder, 'NaN%' and 'Infinity%'
Percent(p) == [k |-> "%", n |-> p]
Placeholder == [k |-> "placeholder", n |-> 0]
NaNPercent == [k |-> "NaN%", n |-> 0]
InfinityPercent == [k |-> "Infinity%", n |-> 0]

\* Math.round(c * 100) for a confidence c held in thousandths
RoundPercent(c) == (c.n + 5) \div 10

\* forecast?.confidence ? `${Math.round(forecast.confidence * 100)}%` : placeholder
confidenceText(fc) ==
  LET c == IF IsNullish(fc) THEN Undef ELSE fc.confidence
  IN  IF ~Truthy(c) THEN Placeholder
      ELSE IF IsFinite(Number(c)) THEN Percent(RoundPercent(Number(c)))
      ELSE IF Number(c) = Infinity THEN InfinityPercent
      ELSE NaNPercent

\* forecast?.forecast ?? []
fcArr(fc) == IF IsNullish(fc) THEN Arr(<< >>) ELSE Coalesce(fc.forecast, Arr(<< >>))

\* the comparator reads a.date of every item once there are two of them
SortThrows(s) == Len(s) >= 2 /\ \E i \in 1..Len(s) : Unreadable(s[i])

\* among the items of the earliest date, the last one instead of the first
nextForecastLastOfTies(fc) ==
  LET a == fcArr(fc)
  IN  IF ~IsArray(a) \/ Len(a.v) = 0 THEN {Null}
      ELSE IF Len(a.v) = 1 THEN {a.v[1]}
      ELSE {s[CHOOSE i \in 1..Len(s) :
                /\ CompareFn(s[i], s[1]) = 0
                /\ \A j \in (i + 1)..Len(s) : CompareFn(s[j], s[1]) # 0]
            : s \in ArraySort(a.v)}

\* the values nextForecast can take (line 90-96)
nextForecast(fc) ==
  LET a == fcArr(fc)
  IN  IF ~IsArray(a) \/ Len(a.v) = 0 THEN {Null}
      ELSE IF Len(a.v) = 1 THEN {a.v[1]}
      ELSE {s[1] : s \in ArraySort(a.v)}

NoText == [k |-> "none", n |-> 0]

\* the render has thrown: React unmounts the tree
Crashed ==
  [chart |-> "crashed", nextForecast |-> Null, date |-> NoText, confidence |-> NoText]

\* the chart card (lines 156-235)
chartCard(ld, lg) ==
  IF ld THEN "loading" ELSE IF Len(lg) > 0 THEN "chart" ELSE "empty"

\* the renders of the state (fc, lg, ld)
Render(fc, lg, ld) ==
  IF IsArray(fcArr(fc)) /\ SortThrows(fcArr(fc).v) THEN {Crashed}
  ELSE {[chart |-> chartCard(ld, lg),
         nextForecast |-> nf,
         date |-> IF Truthy(nf) THEN formatDate(nf.date) ELSE NoText,
         confidence |-> IF Truthy(nf) THEN confidenceText(fc) ELSE NoText]
        : nf \in nextForecast(fc)}

(***************************************************************************)
(* The data the three endpoints hold: what a request answers with when it  *)
(* is fulfilled (the .data of its response).                               *)
(***************************************************************************)
RawNumbers ==
  {Undef, Null, TextStr, NumStr(2), Num(0), Num(3), Num(0 - 1), Infinity, InfStr}

Dates == {IsoDate(d) : d \in 1..MaxDay} \cup {TextStr}

\* confidence values, numbers in thousandths: 0, 0.004, 0.005, 0.8, 1
Confidences ==
  {Undef, Null, TextStr, NaN, Num(0), Num(4), Num(5), Num(800), Num(1000)}

SomeStats == [totalHours |-> 5, avgPerDay |-> 1, entries |-> 5]

DateSeqs(n) == UNION {[1..m -> Dates] : m \in 0..n}

\* log entries of the dates ds, all of duration "2"
LogsOf(ds) == Arr([i \in 1..Len(ds) |-> [date |-> ds[i], duration |-> NumStr(2)]])

\* forecast points of the dates fs; point i forecasts i + 1 hours in [i, i + 2]
BundleOf(fs, c) ==
  [forecast |->
     Arr([i \in 1..Len(fs) |->
            [date |-> fs[i], hours |-> Num(i + 1),
             range |-> [min |-> Num(i), max |-> Num(i + 2)]]]),
   confidence |-> c]

OnePoint(h, r) == [date |-> IsoDate(1), hours |-> h, range |-> r]

\* every order and collision of dates, at most MaxPoints records in all
DatedBackends ==
  UNION {{[stats |-> SomeStats, forecast |-> BundleOf(fs, Num(800)), logs |-> LogsOf(ds)] :
            fs \in DateSeqs(MaxPoints - Len(ds))} : ds \in DateSeqs(MaxPoints)}

\* every raw value of hours, range.min and range.max, and of duration
NumericBackends ==
  {[stats |-> SomeStats,
    forecast |-> [forecast |-> Arr(<<OnePoint(h, r)>>), confidence |-> Num(800)],
    logs |-> LogsOf(<<IsoDate(1)>>)] :
     h \in RawNumbers,
     r \in {Undef} \cup [min : RawNumbers, max : RawNumbers]}
  \cup
  {[stats |-> SomeStats,
    forecast |-> BundleOf(<<IsoDate(1)>>, Num(800)),
    logs |-> Arr(<<[date |-> IsoDate(1), duration |-> v]>>)] : v \in RawNumbers}

\* every confidence
ConfidenceBackends ==
  {[stats |-> SomeStats, forecast |-> BundleOf(fs, c), logs |-> LogsOf(<< >>)] :
     fs \in {<<IsoDate(1)>>, <<TextStr>>}, c \in Confidences}

\* unexpected top-level shapes and unreadable records
ShapedBackends ==
  {[stats |-> s, forecast |-> f, logs |-> l] :
     s \in {Undef, SomeStats},
     f \in {Undef,
            [forecast |-> Undef, confidence |-> Undef],
            [forecast |-> Obj, confidence |-> Num(800)],
            [forecast |-> Arr(<<Null>>), confidence |-> Num(800)],
            [forecast |-> Arr(<<Null, OnePoint(Num(3), Undef)>>), confidence |-> Num(800)],
            BundleOf(<<IsoDate(1)>>, Num(800))},
     l \in {Undef, Obj, Arr(<<Null>>), LogsOf(<<IsoDate(1)>>)}}

Backends ==
  DatedBackends \cup NumericBackends \cup ConfidenceBackends \cup ShapedBackends

(***************************************************************************)
(* State.                                                                  *)
(***************************************************************************)
Sources == {"stats", "forecast", "logs"}

VARIABLES
  server,       \* what getStats, getForecast and getLogs answer with
  stats,        \* useState (line 17)
  forecast,     \* useState (line 18)
  logs,         \* useState (line 19)
  loading,      \* useState (line 20)
  pc,           \* where loadData is: "mounted", "awaiting", "done"
  req,          \* each request: "idle", "pending", "fulfilled", "rejected"
  applied,      \* the state setters of lines 37, 38, 63 loadData has called
  errorLogged,  \* console.error was called (line 66)
  view          \* what the last render shows

vars == <<server, stats, forecast, logs, loading, pc, req, applied, errorLogged, view>>

\* the shape of the state
TypeOK ==
  /\ server \in Backends
  /\ DOMAIN stats = {"totalHours", "avgPerDay", "entries"} \/ stats = Undef
  /\ loading \in BOOLEAN
  /\ pc \in {"mounted", "awaiting", "done"}
  /\ req \in [Sources -> {"idle", "pending", "fulfilled", "rejected"}]
  /\ applied \subseteq Sources
  /\ errorLogged \in BOOLEAN
  /\ view.chart \in {"loading", "chart", "empty", "crashed"}
  /\ \A i \in 1..Len(logs) : logs[i].type \in {"history", "forecast"}

\* Promise.all of the three requests (lines 30-34)
PromiseAll ==
  IF \E s \in Sources : req[s] = "rejected" THEN "rejected"
  ELSE IF \A s \in Sources : req[s] = "fulfilled" THEN "fulfilled"
  ELSE "pending"

\* the continuation of the await is a microtask: it runs before any other
\* request settles
Runnable == pc = "awaiting" /\ PromiseAll # "pending"

Init ==
  /\ server \in Backends
  /\ stats = DefaultStats
  /\ forecast = Null
  /\ logs = << >>
  /\ loading = TRUE
  /\ pc = "mounted"
  /\ req = [s \in Sources |-> "idle"]
  /\ applied = {}
  /\ errorLogged = FALSE
  /\ view \in Render(Null, << >>, TRUE)

\* useEffect runs loadData up to the await (lines 22-34)
Mount ==
  /\ pc = "mounted"
  /\ loading' = TRUE
  /\ req' = [s \in Sources |-> "pending"]
  /\ pc' = "awaiting"
  /\ view' \in Render(forecast, logs, TRUE)
  /\ UNCHANGED <<server, stats, forecast, logs, applied, errorLogged>>

\* a request is answered
Fulfil(s) ==
  /\ req[s] = "pending"
  /\ ~Runnable
  /\ req' = [req EXCEPT ![s] = "fulfilled"]
  /\ UNCHANGED <<server, stats, forecast, logs, loading, pc, applied, errorLogged, view>>

\* a request fails
Reject(s) ==
  /\ req[s] = "pending"
  /\ ~Runnable
  /\ req' = [req EXCEPT ![s] = "rejected"]
  /\ UNCHANGED <<server, stats, forecast, logs, loading, pc, applied, errorLogged, view>>

\* the await returns the three responses: lines 36-63, then finally
LoadFulfilled ==
  /\ pc = "awaiting"
  /\ PromiseAll = "fulfilled"
  /\ pc' = "done"
  /\ loading' = FALSE
  /\ stats' = Coalesce(server.stats, DefaultStats)
  /\ forecast' = Coalesce(server.forecast, Null)
  /\ IF MapThrows(LogsArray(server.logs)) \/ MapThrows(ForecastArray(server.forecast))
     THEN /\ logs' = logs
          /\ applied' = {"stats", "forecast"}
          /\ errorLogged' = TRUE
     ELSE /\ \E c \in chartData(server.logs, server.forecast) : logs' = c
          /\ applied' = {"stats", "forecast", "logs"}
          /\ errorLogged' = errorLogged
  /\ \E v \in Render(forecast', logs', FALSE) : view' = v
  /\ UNCHANGED <<server, req>>

\* a catch path without the finally block: loading is never cleared
LoadRejectedKeepsLoading ==
  /\ pc = "awaiting"
  /\ PromiseAll = "rejected"
  /\ errorLogged' = TRUE
  /\ pc' = "done"
  /\ view' \in Render(forecast, logs, loading)
  /\ UNCHANGED <<server, stats, forecast, logs, loading, req, applied>>

\* the await throws the first rejection: catch, then finally (lines 64-69)
LoadRejected ==
  /\ pc = "awaiting"
  /\ PromiseAll = "rejected"
  /\ errorLogged' = TRUE
  /\ loading' = FALSE
  /\ pc' = "done"
  /\ view' \in Render(forecast, logs, FALSE)
  /\ UNCHANGED <<server, stats, forecast, logs, req, applied>>

Next ==
  \/ Mount
  \/ \E s \in Sources : Fulfil(s)
  \/ \E s \in Sources : Reject(s)
  \/ LoadFulfilled
  \/ LoadRejected

Spec == Init /\ [][Next]_vars

\* every request settles and every scheduled step runs
FairSpec == Spec /\ WF_vars(Next)

(***************************************************************************)
(* Properties.                                                             *)
(***************************************************************************)
Settled == \A s \in Sources : req[s] \in {"fulfilled", "rejected"}
SomeRejected == \E s \in Sources : req[s] = "rejected"
WellShaped ==
  /\ ~MapThrows(LogsArray(server.logs))
  /\ ~MapThrows(ForecastArray(server.forecast))

\* what source s contributes: its answer when fulfilled, nothing when rejected
Answer(s) == IF req[s] = "fulfilled" THEN server[s] ELSE Undef

\* C1: when one or more of the three requests rejects, every failed source is
\* replaced by its empty default and every source that succeeded is applied
\* to stats, forecast and the reconciled series.
C1_Claim ==
  (pc = "done" /\ Settled /\ SomeRejected /\ WellShaped) =>
    /\ stats = Coalesce(Answer("stats"), DefaultStats)
    /\ forecast = Coalesce(Answer("forecast"), Null)
    /\ logs \in chartData(Answer("logs"), Answer("forecast"))

\* C2: loading is false only when no request of the load is still pending.
C2_Claim == (loading = FALSE) => Settled

\* C3: loading eventually becomes false, and once a load with a rejected
\* source is over the series is empty and the chart card shows the empty
\* state, never an error.
C3_Thm ==
  /\ <>(loading = FALSE)
  /\ []((pc = "done" /\ SomeRejected) =>
          (loading = FALSE /\ logs = << >> /\ view.chart = "empty"))

C3_Witness ==
  /\ pc = "done"
  /\ loading = FALSE
  /\ req["stats"] = "fulfilled"
  /\ req["forecast"] = "fulfilled"
  /\ req["logs"] = "rejected"
  /\ server.logs # Undef /\ IsArray(server.logs) /\ Len(server.logs.v) > 0
  /\ view.chart = "empty"

\* C4: hours, min and max of every point of the stored series are finite
\* numbers.
C4_Claim ==
  \A i \in 1..Len(logs) :
    IsFinite(logs[i].hours) /\ IsFinite(logs[i].min) /\ IsFinite(logs[i].max)

\* the bound of a band as C5 states it: the coerced range value when it is
\* present and a number, the normalised hours otherwise
BandBound(r, f) ==
  IF ~IsNullish(r) /\ Number(r) # NaN THEN Number(r) ELSE Or(Number(f.hours), Num(0))

\* C5: every forecast point of the stored series has min equal to the
\* coerced range.min when that is present and a number (zero and negatives
\* included) and to the normalised hours otherwise; max likewise, independently.
C5_Claim ==
  (pc = "done" /\ "logs" \in applied) =>
    \A i \in 1..Len(logs) :
      logs[i].type = "forecast" =>
        \E f \in Range(ForecastArray(server.forecast).v) :
          /\ logs[i].date = f.date
          /\ logs[i].hours = Or(Number(f.hours), Num(0))
          /\ logs[i].min = BandBound(RangeMin(f), f)
          /\ logs[i].max = BandBound(RangeMax(f), f)

Count(x, s) == Cardinality({i \in 1..Len(s) : s[i] = x})

IsPermutationOf(a, b) ==
  /\ Len(a) = Len(b)
  /\ \A x \in Range(a) \cup Range(b) : Count(x, a) = Count(x, b)

\* no point comes before a point of an earlier date
NonDecreasing(s) ==
  \A i \in 1..Len(s), j \in 1..Len(s) :
    (i < j /\ Parses(s[i].date) /\ Parses(s[j].date)) =>
      DateValue(s[i].date).n <= DateValue(s[j].date).n

AllParse(s) == \A i \in 1..Len(s) : Parses(s[i].date)

\* the normalised points of H followed by those of F, in input order
Normalised ==
  LET h == LogsArray(server.logs).v
  IN  [i \in 1..Len(h) |-> HistoryPoint(h[i])] \o forecastPoints(server.forecast)

Stored == pc = "done" /\ "logs" \in applied

\* C6, as claimed: the stored series is a permutation of the normalised
\* points of H followed by F and is non-decreasing by parsed date, for all
\* H and F.
C6_Claim == Stored => (IsPermutationOf(logs, Normalised) /\ NonDecreasing(logs))

\* C6, amended: the stored series is a permutation of the normalised points
\* of H followed by F (length |H| + |F|, nothing dropped or deduplicated), and
\* it is non-decreasing by parsed date when every date of H and F parses.
C6_Thm ==
  Stored =>
    /\ Len(logs) = Len(LogsArray(server.logs).v) + Len(ForecastArray(server.forecast).v)
    /\ IsPermutationOf(logs, Normalised)
    /\ AllParse(logs) => NonDecreasing(logs)

C6_Witness ==
  /\ Stored
  /\ Len(logs) = 3
  /\ AllParse(logs)
  /\ logs # Normalised
  /\ \E i \in 1..2 :
       /\ logs[i].date = logs[i + 1].date
       /\ logs[i].type # logs[i + 1].type

\* a bundle whose forecast is a non-empty array of readable points
HasForecast ==
  /\ ~IsNullish(forecast)
  /\ IsArray(fcArr(forecast))
  /\ Len(fcArr(forecast).v) > 0
  /\ \A i \in 1..Len(fcArr(forecast).v) : ~Unreadable(fcArr(forecast).v[i])

\* item i of a is the first item of the earliest date of a
FirstEarliest(a, i) ==
  /\ (\E j \in 1..Len(a) : Parses(a[j].date)) => Parses(a[i].date)
  /\ \A j \in 1..Len(a) :
       (Parses(a[i].date) /\ Parses(a[j].date)) =>
         /\ DateValue(a[i].date).n <= DateValue(a[j].date).n
         /\ (j < i) => DateValue(a[j].date).n > DateValue(a[i].date).n

\* C7, as claimed: for every non-empty forecast sequence the next forecast
\* is the first item, in input order, of the earliest date of the sequence.
C7_Claim ==
  HasForecast =>
    \E i \in 1..Len(fcArr(forecast).v) :
      /\ FirstEarliest(fcArr(forecast).v, i)
      /\ view.nextForecast = fcArr(forecast).v[i]

\* C7, amended: for every non-empty forecast sequence whose dates all parse
\* the next forecast is the first item, in input order, of the earliest date.
C7_Thm ==
  (HasForecast /\ AllParse(fcArr(forecast).v)) =>
    \E i \in 1..Len(fcArr(forecast).v) :
      /\ FirstEarliest(fcArr(forecast).v, i)
      /\ view.nextForecast = fcArr(forecast).v[i]

C7_Witness ==
  /\ HasForecast
  /\ AllParse(fcArr(forecast).v)
  /\ Len(fcArr(forecast).v) = 3
  /\ view.nextForecast = fcArr(forecast).v[2]
  /\ fcArr(forecast).v[3].date = fcArr(forecast).v[2].date
  /\ fcArr(forecast).v[1].date # fcArr(forecast).v[2].date

\* the summary card shows a forecast point
SummaryShown == view.chart # "crashed" /\ Truthy(view.nextForecast)

\* a number in [0, 1], held in thousandths
ValidConfidence(c) == c.k = "number" /\ c.n >= 0 /\ c.n <= 1000

\* C8: a confidence that is a number in [0, 1], zero included, is shown as
\* round(confidence * 100) percent; the placeholder is shown only when the
\* confidence is absent or no number.
C8_Claim ==
  SummaryShown =>
    /\ ValidConfidence(forecast.confidence) =>
         view.confidence = Percent((forecast.confidence.n + 5) \div 10)
    /\ (view.confidence = Placeholder) => ~ValidConfidence(forecast.confidence)

\* C9: formatDate returns an input that does not parse as a date unchanged.
C9_Claim ==
  (SummaryShown /\ ~Parses(view.nextForecast.date)) =>
    view.date = view.nextForecast.date

\* C10: when a load is over, the forecast and the reconciled series were
\* both replaced from its responses, or neither was: the summary is never
\* taken from a new forecast bundle while the series is still the previous one.
C10_Claim ==
  (pc = "done") =>
    \/ ("forecast" \in applied /\ "logs" \in applied)
    \/ (forecast = Null /\ logs = << >>)

====
